---- MODULE Spec2Model ----
(***************************************************************************)
(* elh::proqueue<T> (src/proqueue.h): a std::queue<T> with one worker      *)
(* thread that runs the registered callbacks on the front element and pops *)
(* it.                                                                     *)
(*                                                                         *)
(* The storage is the std::deque under std::queue: a block of cells and    *)
(* the two iterators start and finish.  push_back reads finish, constructs *)
(* the element in that cell and stores finish + 1; pop_front stores        *)
(* start + 1; empty() is start = finish; front() is a reference to the     *)
(* cell at start.  None of these is atomic, and the operations that run    *)
(* without the mutex interleave at these steps.                            *)
(*                                                                         *)
(* tasks.at(tasks()) at lines 98 and 117 is read as                        *)
(* tasks.at(tasks_count()): std::array has no call operator, and the       *)
(* number of occupied slots is the only index the surrounding code and the *)
(* message at line 119 make sense with.                                    *)
(***************************************************************************)
EXTENDS Integers, Sequences, FiniteSets

\* ---------------------------------------------------------------- bounds
MaxPush == 3         \* push() calls over a run; the k-th call pushes the value k
MaxAdd == 1          \* add_callback() calls over a run
MaxPops == 1         \* pop() calls made by threads other than the worker
MaxStops == 2        \* stop() calls made by the owner before the destructor
MaxCtorArgs == 2     \* callbacks handed to the constructor

\* ------------------------------------------------------- program constants
MAX_TASK_SIZE == 10

Producers == {"p1", "p2"}
Slots == 0 .. (MAX_TASK_SIZE - 1)
MaxIdx == MaxPush + MaxPops + 1      \* cells of the modelled block
Cells == 0 .. (MaxIdx - 1)
NoTask == 0                          \* an empty std::function
Garbage == 0                         \* a cell no push has written

VARIABLES
    cells, start, finish,       \* std::queue<T> base: the deque's block and iterators
    tasks,                      \* std::array<function_type, MAX_TASK_SIZE>
    mutex,                      \* std::recursive_mutex: [owner, count]
    signalled,                  \* condition: a notify_one() the waiting worker has not consumed
    shutdown_required,
    joinable,                   \* std::thread thread: joinable()
    ctor_pc, ctor_k,            \* the constructor's position; the number of its arguments
    quota,                      \* the calls the run's threads make: [push, add, pop, stop]
    wpc, draining, target, wi,  \* the worker: position, which loop, front() reference, slot index
    ppc, pt, pv,                \* producers: position, finish as read, value
    rpc, adds, last_add,        \* add_callback caller: position, calls begun, outcome of its last call
    spc, stops, joins,          \* stop()/~proqueue caller: position, calls begun, joins completed
    destroyed,                  \* ~proqueue has begun
    cpc, pops,                  \* pop() caller: position, calls begun
    fatal,                      \* how the process died: "none", "terminate" (std::terminate), "wild_read"
    late_push,                  \* history: a push() overlapped or followed a stop() or the destructor
    npush, ndone, nproc, nreg,  \* history: pushes begun, pushes completed, proc_one completed, registrations made
    log, obs                    \* history: values seen by slot 0's callback; <<slot, value>> seen for the element in process

vars == <<cells, start, finish, tasks, mutex, signalled, shutdown_required, joinable,
          ctor_pc, ctor_k, quota, wpc, draining, target, wi, ppc, pt, pv, rpc, adds, last_add,
          spc, stops, joins, destroyed, cpc, pops, fatal,
          late_push, npush, ndone, nproc, nreg, log, obs>>

storage == <<cells, start, finish>>
ctor == <<ctor_pc, ctor_k, quota>>
caller == <<cpc, pops>>
worker == <<wpc, draining, target, wi>>
producers == <<ppc, pt, pv>>
registrar == <<rpc, adds, last_add>>
stopper == <<spc, stops, joins, destroyed>>
history == <<late_push, npush, ndone, nproc, nreg, log, obs>>

\* ---------------------------------------------------------------- helpers
\* std::queue<T>::empty()
empty == start = finish

\* std::queue<T>::size(): finish - start as a size_t
size == finish - start

\* proqueue::state_is_ready
state_is_ready == ~shutdown_required /\ ~empty

\* the predicate handed to condition.wait
wait_pred == ~empty \/ shutdown_required

\* proqueue::tasks_count
tasks_count == Cardinality({i \in Slots : tasks[i] # NoTask})

Unlocked == [owner |-> "none", count |-> 0]

\* a mutex that is not recursive: its holder cannot take it again
CanLock_NonRecursive(t) == mutex.owner = "none"

\* get_lock(): can thread t take the recursive mutex now?
CanLock(t) == mutex.owner \in {"none", t}

\* get_lock(): the mutex after thread t took it
Locked(t) == [owner |-> t, count |-> mutex.count + 1]

\* ~unique_lock: the mutex after its holder released one level
Released ==
    IF mutex.count = 1 THEN Unlocked ELSE [mutex EXCEPT !.count = mutex.count - 1]

\* the first occupied slot at or after slot i; MAX_TASK_SIZE when there is none
NextTask(i) ==
    IF \E j \in Slots : j >= i /\ tasks[j] # NoTask
      THEN CHOOSE j \in Slots : /\ j >= i /\ tasks[j] # NoTask
                                /\ \A k \in Slots : (k >= i /\ k < j) => tasks[k] = NoTask
      ELSE MAX_TASK_SIZE

\* the public operations are called on a constructed object that is not being destroyed
Alive == ctor_pc = "done" /\ ~destroyed /\ fatal = "none"

\* ------------------------------------------------------------------- Init
\* The state as the member initialisers reach `thread` (lines 33-37, 97): tasks,
\* mutex and condition are built, the worker has been started, and
\* shutdown_required, declared after thread, still holds whatever its memory held.
\* q is the number of calls the run's threads make, K the constructor's arities.
InitWith(q, K) ==
    /\ quota = q
    /\ ctor_k \in K
    /\ cells = [i \in Cells |-> Garbage]
    /\ start = 0
    /\ finish = 0
    /\ tasks = [i \in Slots |-> NoTask]
    /\ mutex = Unlocked
    /\ signalled = FALSE
    /\ shutdown_required \in BOOLEAN
    /\ joinable = TRUE
    /\ ctor_pc = "flag"
    /\ wpc = "while"
    /\ draining = FALSE
    /\ target = 0
    /\ wi = 0
    /\ ppc = [p \in Producers |-> "idle"]
    /\ pt = [p \in Producers |-> 0]
    /\ pv = [p \in Producers |-> 0]
    /\ rpc = "idle"
    /\ adds = 0
    /\ last_add = "none"
    /\ spc = "idle"
    /\ stops = 0
    /\ joins = 0
    /\ destroyed = FALSE
    /\ cpc = "idle"
    /\ pops = 0
    /\ fatal = "none"
    /\ late_push = FALSE
    /\ npush = 0
    /\ ndone = 0
    /\ nproc = 0
    /\ nreg = 0
    /\ log = <<>>
    /\ obs = <<>>

Init ==
    InitWith([push |-> MaxPush, add |-> MaxAdd, pop |-> MaxPops, stop |-> MaxStops], {1})

\* ------------------------------------------------------------ constructor
\* bool shutdown_required { false }: initialised after the thread member
ctor_init_flag ==
    /\ ctor_pc = "flag"
    /\ fatal = "none"
    /\ shutdown_required' = FALSE
    /\ ctor_pc' = "body"
    /\ UNCHANGED <<storage, tasks, mutex, signalled, joinable, ctor_k, quota, worker,
                   producers, registrar, stopper, caller, fatal, history>>

\* a registration that always writes the first slot
Register_FirstSlot(id) == [tasks EXCEPT ![0] = id]

\* the registry after tasks.at(tasks_count()) = f, f numbered by registration
Register(id) == [tasks EXCEPT ![tasks_count] = id]

\* the constructor's body: registers func; `remaining` is never used
ctor_body ==
    /\ ctor_pc = "body"
    /\ fatal = "none"
    /\ tasks' = Register(nreg + 1)
    /\ nreg' = nreg + 1
    /\ ctor_pc' = "done"
    /\ UNCHANGED <<storage, mutex, signalled, shutdown_required, joinable, ctor_k, quota,
                   worker, producers, registrar, stopper, caller, fatal,
                   late_push, npush, ndone, nproc, log, obs>>

\* ----------------------------------------------------------- worker thread
\* while (!shutdown_required)
thread_work_while ==
    /\ wpc = "while"
    /\ fatal = "none"
    /\ wpc' = IF shutdown_required THEN "drain" ELSE "lock"
    /\ draining' = shutdown_required
    /\ UNCHANGED <<storage, tasks, mutex, signalled, shutdown_required, joinable, ctor,
                   target, wi, producers, registrar, stopper, caller, fatal, history>>

\* auto lock = get_lock()
thread_work_lock ==
    /\ wpc = "lock"
    /\ fatal = "none"
    /\ CanLock("worker")
    /\ mutex' = Locked("worker")
    /\ wpc' = "ready"
    /\ UNCHANGED <<storage, tasks, signalled, shutdown_required, joinable, ctor,
                   draining, target, wi, producers, registrar, stopper, caller,
                   fatal, history>>

\* if (!state_is_ready()) condition.wait(lock, pred): wait(lock, pred) is
\* while (!pred()) wait(lock), so the worker goes on to proc_one when either test
\* passes and is about to block when both fail
thread_work_ready ==
    /\ wpc = "ready"
    /\ fatal = "none"
    /\ wpc' = IF state_is_ready \/ wait_pred THEN "front" ELSE "block"
    /\ UNCHANGED <<storage, tasks, mutex, signalled, shutdown_required, joinable, ctor,
                   draining, target, wi, producers, registrar, stopper, caller,
                   fatal, history>>

\* condition.wait(lock): the mutex is released and the worker blocks.  The tests were
\* made a step earlier, and push() does not wait for the mutex.
thread_work_block ==
    /\ wpc = "block"
    /\ fatal = "none"
    /\ mutex' = Released
    /\ wpc' = "waiting"
    /\ UNCHANGED <<storage, tasks, signalled, shutdown_required, joinable, ctor,
                   draining, target, wi, producers, registrar, stopper, caller,
                   fatal, history>>

\* the wait wakes and takes the mutex again; pred is then tested again (the test of
\* thread_work_ready is pred's: state_is_ready implies pred)
Wake ==
    /\ wpc = "waiting"
    /\ fatal = "none"
    /\ CanLock("worker")
    /\ signalled' = FALSE
    /\ mutex' = Locked("worker")
    /\ wpc' = "ready"
    /\ UNCHANGED <<storage, tasks, shutdown_required, joinable, ctor,
                   draining, target, wi, producers, registrar, stopper, caller,
                   fatal, history>>

\* condition.wait woken by a notify_one()
wait_notified == signalled /\ Wake

\* condition.wait woken spuriously, as the standard allows
wait_spurious == ~signalled /\ Wake

\* auto& target = front(): a reference to the cell at start; the cells past the
\* modelled block are not the program's, and reading them ends the run
proc_one_front ==
    /\ wpc = "front"
    /\ fatal = "none"
    /\ IF start \in Cells
         THEN /\ target' = start
              /\ wi' = 0
              /\ obs' = <<>>
              /\ wpc' = "iter"
              /\ UNCHANGED fatal
         ELSE /\ fatal' = "wild_read"
              /\ UNCHANGED <<target, wi, obs, wpc>>
    /\ UNCHANGED <<storage, tasks, mutex, signalled, shutdown_required, joinable, ctor,
                   draining, producers, registrar, stopper, caller,
                   late_push, npush, ndone, nproc, nreg, log>>

\* what the callbacks have seen once the callback in slot j ran on the referenced cell
Observed(j) == Append(obs, <<j, cells[target]>>)

\* for (auto& i : tasks) { if (i) i(target); }, up to and including the next occupied
\* slot: its callback sees what the referenced cell holds now.  With no occupied slot
\* left the loop ends.
proc_one_iter ==
    /\ wpc = "iter"
    /\ fatal = "none"
    /\ IF NextTask(wi) < MAX_TASK_SIZE
         THEN /\ obs' = Observed(NextTask(wi))
              /\ log' = IF NextTask(wi) = 0 THEN Append(log, cells[target]) ELSE log
              /\ wi' = NextTask(wi) + 1
              /\ UNCHANGED wpc
         ELSE /\ wpc' = "pop_lock"
              /\ UNCHANGED <<obs, log, wi>>
    /\ UNCHANGED <<storage, tasks, mutex, signalled, shutdown_required, joinable, ctor,
                   draining, target, producers, registrar, stopper, caller,
                   fatal, late_push, npush, ndone, nproc, nreg>>

\* pop(), called by proc_one: get_lock(); builds a temporary unique_lock ...
proc_one_pop_lock ==
    /\ wpc = "pop_lock"
    /\ fatal = "none"
    /\ CanLock("worker")
    /\ mutex' = Locked("worker")
    /\ wpc' = "pop_unlock"
    /\ UNCHANGED <<storage, tasks, signalled, shutdown_required, joinable, ctor,
                   draining, target, wi, producers, registrar, stopper, caller,
                   fatal, history>>

\* ... which is destroyed at the end of that statement
proc_one_pop_unlock ==
    /\ wpc = "pop_unlock"
    /\ fatal = "none"
    /\ mutex' = Released
    /\ wpc' = "pop_remove"
    /\ UNCHANGED <<storage, tasks, signalled, shutdown_required, joinable, ctor,
                   draining, target, wi, producers, registrar, stopper, caller,
                   fatal, history>>

\* std::queue<T>::pop() in pop(), called by proc_one
proc_one_pop_remove ==
    /\ wpc = "pop_remove"
    /\ fatal = "none"
    /\ start' = start + 1
    /\ nproc' = nproc + 1
    /\ wpc' = IF draining THEN "drain" ELSE "unlock"
    /\ UNCHANGED <<cells, finish, tasks, mutex, signalled, shutdown_required, joinable,
                   ctor, draining, target, wi, producers, registrar, stopper, caller,
                   fatal, late_push, npush, ndone, nreg, log, obs>>

\* the end of the loop body: lock is destroyed
thread_work_unlock ==
    /\ wpc = "unlock"
    /\ fatal = "none"
    /\ mutex' = Released
    /\ wpc' = "while"
    /\ UNCHANGED <<storage, tasks, signalled, shutdown_required, joinable, ctor,
                   draining, target, wi, producers, registrar, stopper, caller,
                   fatal, history>>

\* while (!empty()) proc_one(); then the thread function returns
thread_work_drain ==
    /\ wpc = "drain"
    /\ fatal = "none"
    /\ wpc' = IF empty THEN "done" ELSE "front"
    /\ UNCHANGED <<storage, tasks, mutex, signalled, shutdown_required, joinable, ctor,
                   draining, target, wi, producers, registrar, stopper, caller,
                   fatal, history>>

\* ------------------------------------------------------------------- push
\* std::queue<T>::push(t), first half: push_back reads finish.  No lock is taken.
push_begin(p) ==
    /\ Alive
    /\ ppc[p] = "idle"
    /\ npush < quota.push
    /\ npush' = npush + 1
    /\ late_push' = (late_push \/ stops > 0)
    /\ pv' = [pv EXCEPT ![p] = npush + 1]
    /\ pt' = [pt EXCEPT ![p] = finish]
    /\ ppc' = [ppc EXCEPT ![p] = "store"]
    /\ UNCHANGED <<storage, tasks, mutex, signalled, shutdown_required, joinable, ctor,
                   worker, registrar, stopper, caller, fatal,
                   ndone, nproc, nreg, log, obs>>

\* the storage after push_back stored value v in the cell it read as finish
Pushed(t, v) == <<[cells EXCEPT ![t] = v], start, t + 1>>

\* std::queue<T>::push(t), second half: the element is built in the cell and
\* finish is advanced.  push returns without notifying the condition.
push_end(p) ==
    /\ ppc[p] = "store"
    /\ fatal = "none"
    /\ cells' = Pushed(pt[p], pv[p])[1]
    /\ start' = Pushed(pt[p], pv[p])[2]
    /\ finish' = Pushed(pt[p], pv[p])[3]
    /\ ndone' = ndone + 1
    /\ ppc' = [ppc EXCEPT ![p] = "idle"]
    /\ UNCHANGED <<tasks, mutex, signalled, shutdown_required, joinable, ctor,
                   worker, pt, pv, registrar, stopper, caller, fatal,
                   late_push, npush, nproc, nreg, log, obs>>

\* ----------------------------------------------------------- add_callback
\* auto l = get_lock()
add_callback_lock ==
    /\ Alive
    /\ rpc = "idle"
    /\ adds < quota.add
    /\ CanLock("registrar")
    /\ mutex' = Locked("registrar")
    /\ adds' = adds + 1
    /\ rpc' = "store"
    /\ UNCHANGED <<storage, tasks, signalled, shutdown_required, joinable, ctor,
                   worker, producers, last_add, stopper, caller, fatal, history>>

\* add_callback with a capacity check that is off by one
Added_OffByOne ==
    IF tasks_count < MAX_TASK_SIZE - 1
      THEN <<Register(nreg + 1), "ok">>
      ELSE <<tasks, "out_of_range">>

\* the registry and the outcome of tasks.at(tasks_count()) = callback: at() throws
\* std::out_of_range past the last slot, and add_callback rethrows it
Added ==
    IF tasks_count < MAX_TASK_SIZE
      THEN <<Register(nreg + 1), "ok">>
      ELSE <<tasks, "out_of_range">>

\* try { tasks.at(tasks_count()) = callback; } catch ... ; l is destroyed
add_callback_store ==
    /\ rpc = "store"
    /\ fatal = "none"
    /\ tasks' = Added[1]
    /\ last_add' = Added[2]
    /\ nreg' = IF Added[2] = "ok" THEN nreg + 1 ELSE nreg
    /\ mutex' = Released
    /\ rpc' = "idle"
    /\ UNCHANGED <<storage, signalled, shutdown_required, joinable, ctor,
                   worker, producers, adds, stopper, caller, fatal,
                   late_push, npush, ndone, nproc, log, obs>>

\* ------------------------------------------------------ stop / ~proqueue
\* condition.notify_one(): wakes the worker if it is waiting, else does nothing
Notified == signalled \/ wpc = "waiting"

\* the shutdown flag as stop() leaves it: stop() does not write it
StopFlag == shutdown_required

\* stop(): condition.notify_one()
stop_notify ==
    /\ Alive
    /\ spc \in {"idle", "returned"}
    /\ stops < quota.stop
    /\ stops' = stops + 1
    /\ shutdown_required' = StopFlag
    /\ signalled' = Notified
    /\ spc' = "join"
    /\ late_push' = (late_push \/ \E p \in Producers : ppc[p] # "idle")
    /\ UNCHANGED <<storage, tasks, mutex, joinable, ctor,
                   worker, producers, registrar, joins, destroyed, caller,
                   fatal, npush, ndone, nproc, nreg, log, obs>>

\* ~proqueue(): stop()
destructor ==
    /\ Alive
    /\ spc \in {"idle", "returned"}
    /\ destroyed' = TRUE
    /\ shutdown_required' = StopFlag
    /\ signalled' = Notified
    /\ spc' = "join"
    /\ late_push' = (late_push \/ \E p \in Producers : ppc[p] # "idle")
    /\ UNCHANGED <<storage, tasks, mutex, joinable, ctor,
                   worker, producers, registrar, stops, joins, caller,
                   fatal, npush, ndone, nproc, nreg, log, obs>>

\* stop(): thread.join() returns once the worker has finished; on a thread that is
\* not joinable it throws std::system_error, and stop() is noexcept: std::terminate
stop_join ==
    /\ spc = "join"
    /\ fatal = "none"
    /\ IF ~joinable
         THEN /\ fatal' = "terminate"
              /\ UNCHANGED <<joinable, joins, spc>>
         ELSE /\ wpc = "done"
              /\ joinable' = FALSE
              /\ joins' = joins + 1
              /\ spc' = "returned"
              /\ UNCHANGED fatal
    /\ UNCHANGED <<storage, tasks, mutex, signalled, shutdown_required, ctor,
                   worker, producers, registrar, stops, destroyed, caller, history>>

\* -------------------------------------------------- pop(), called by a user
\* get_lock(); the temporary unique_lock is built and destroyed in that statement
pop_lock ==
    /\ Alive
    /\ cpc = "idle"
    /\ pops < quota.pop
    /\ CanLock("caller")
    /\ pops' = pops + 1
    /\ cpc' = "remove"
    /\ UNCHANGED <<storage, tasks, mutex, signalled, shutdown_required, joinable, ctor,
                   worker, producers, registrar, stopper, fatal, history>>

\* std::queue<T>::pop(): pop_front advances start, whatever the queue holds
pop_remove ==
    /\ cpc = "remove"
    /\ fatal = "none"
    /\ start' = start + 1
    /\ cpc' = "idle"
    /\ UNCHANGED <<cells, finish, tasks, mutex, signalled, shutdown_required, joinable,
                   ctor, worker, producers, registrar, stopper, pops, fatal, history>>

\* ------------------------------------------------------------------- Next
\* the queue with its worker, producers, an add_callback caller and its owner
Next ==
    \/ ctor_init_flag
    \/ ctor_body
    \/ thread_work_while
    \/ thread_work_lock
    \/ thread_work_ready
    \/ thread_work_block
    \/ wait_notified
    \/ wait_spurious
    \/ proc_one_front
    \/ proc_one_iter
    \/ proc_one_pop_lock
    \/ proc_one_pop_unlock
    \/ proc_one_pop_remove
    \/ thread_work_unlock
    \/ thread_work_drain
    \/ \E p \in Producers : push_begin(p)
    \/ \E p \in Producers : push_end(p)
    \/ add_callback_lock
    \/ add_callback_store
    \/ stop_notify
    \/ destructor
    \/ stop_join

Spec == Init /\ [][Next]_vars

\* the same, with a thread that calls pop() as well
NextPop ==
    \/ Next
    \/ pop_lock
    \/ pop_remove

\* one stop() and one more push() than pop() calls, so that the pops meet both an
\* empty and a non-empty storage
InitPop ==
    InitWith([push |-> MaxPops + 1, add |-> MaxAdd, pop |-> MaxPops, stop |-> 1], {1})

SpecPop == InitPop /\ [][NextPop]_vars

\* the registry filled to its capacity and beyond, by constructors of every arity
InitRegistry ==
    InitWith([push |-> 1, add |-> MAX_TASK_SIZE + MaxAdd, pop |-> 0, stop |-> 1],
             (1 .. MaxCtorArgs) \cup {MAX_TASK_SIZE + 1})

SpecRegistry == InitRegistry /\ [][Next]_vars

\* what the scheduler guarantees: a thread that can take its next step takes it.
\* Nothing obliges a caller to begin a call, nor the wait to wake unnotified.
WorkerStep ==
    \/ thread_work_while
    \/ thread_work_lock
    \/ thread_work_ready
    \/ thread_work_block
    \/ wait_notified
    \/ proc_one_front
    \/ proc_one_iter
    \/ proc_one_pop_lock
    \/ proc_one_pop_unlock
    \/ proc_one_pop_remove
    \/ thread_work_unlock
    \/ thread_work_drain

Fairness ==
    /\ WF_vars(ctor_init_flag \/ ctor_body)
    /\ WF_vars(WorkerStep)
    /\ \A p \in Producers : WF_vars(push_end(p))
    /\ WF_vars(add_callback_store)
    /\ WF_vars(stop_join)

FairSpec == Spec /\ Fairness

\* the most a scheduler can give: the wait also wakes whenever waking lets it proceed
EagerSpec == FairSpec /\ WF_vars(wait_spurious)

\* ================================================================= claims
\* the values pushed so far, in push order: the k-th push() call pushes k
PushedValues == [k \in 1 .. npush |-> k]

\* stop() has returned to its caller, and no push() overlapped or followed it
StoppedCleanly == spc = "returned" /\ ~late_push /\ fatal = "none"

\* C1: once stop() has returned, the log of the first callback is exactly the
\* sequence of the values pushed, in push order, each once.
C1_LogIsPushedSequence == StoppedCleanly => log = PushedValues

\* C2: once stop() has been called, it eventually returns (the worker terminates
\* and is joined), whatever the worker was doing at the call.  Checked with every
\* wake-up granted, so that no lost wake-up can be what keeps stop() from returning.
C2_StopReturns == (spc = "join" /\ stops = 1) ~> (spc = "returned")

\* C3: stop() does not return before every value pushed before it has been
\* processed and removed: on return the storage is empty and as many processing
\* steps have completed as values were pushed.
C3_DrainedOnReturn == StoppedCleanly => (empty /\ nproc = npush)

\* C4: a second stop(), or the destructor after a stop(), neither joins the thread
\* a second time nor ends the process: thread.join() never meets a thread that is
\* not joinable.
C4_StopIdempotent == fatal # "terminate" /\ joins <= 1

\* C5: a value in storage while the worker is blocked in its wait leads to the
\* worker leaving the wait, with no further call needed.
C5_PushWakesWorker == (wpc = "waiting" /\ ~empty /\ spc = "idle") ~> (wpc # "waiting" \/ spc # "idle")

\* the threads that are inside an operation on the storage: a producer between
\* push_back's read of finish and its stores, the worker from front() to the end
\* of its pop (it holds a reference into the storage all along)
InStorage ==
    {p \in Producers : ppc[p] = "store"}
        \cup (IF wpc \in {"iter", "pop_lock", "pop_unlock", "pop_remove"} THEN {"worker"} ELSE {})

\* C6: the storage is only touched inside the exclusive region: never two threads
\* inside a storage operation at once, every thread inside one holds the mutex,
\* and pop()'s removal runs with the mutex held.
C6_StorageUnderMutex ==
    /\ Cardinality(InStorage) <= 1
    /\ \A t \in InStorage : mutex.owner = t

\* C7: size() is the number of completed pushes minus the number of completed
\* processing steps.
C7_SizeCountsPushes == size = ndone - nproc

\* an add_callback() call completes in this step
AddCallbackReturns == rpc = "store" /\ rpc' = "idle"

\* this step fills slot j, empty until now, and touches no other slot
FillsSlot(j) ==
    /\ tasks[j] = NoTask
    /\ tasks'[j] # NoTask
    /\ \A k \in Slots \ {j} : tasks'[k] = tasks[k]

\* C8: an add_callback() made while fewer than MAX_TASK_SIZE registrations have
\* been made (the constructor's included) succeeds and fills the slot after the
\* ones already filled; one made after MAX_TASK_SIZE registrations throws and
\* leaves the registry, the storage and the shutdown flag as they were.
C8_AddCallbackCapacity ==
    [][AddCallbackReturns =>
          IF nreg < MAX_TASK_SIZE
            THEN last_add' = "ok" /\ FillsSlot(nreg)
            ELSE /\ last_add' = "out_of_range"
                 /\ UNCHANGED <<tasks, cells, start, finish, shutdown_required>>]_vars

\* C8's case: an add_callback() has been refused by a full registry
C8_RefusedWhenFull ==
    /\ last_add = "out_of_range"
    /\ \A i \in Slots : tasks[i] # NoTask
    /\ nreg = MAX_TASK_SIZE

\* C9: right after construction with k callbacks, k <= MAX_TASK_SIZE, exactly the
\* slots 0 .. k-1 are occupied, in argument order; with more the construction fails.
C9_CtorRegistersAll ==
    (ctor_pc = "done" /\ adds = 0) =>
        /\ ctor_k <= MAX_TASK_SIZE
        /\ \A i \in Slots : tasks[i] = (IF i < ctor_k THEN i + 1 ELSE NoTask)

\* C10: when the worker removes an element, every occupied slot's callback has run
\* on it exactly once, in slot order, and each of them saw that element.
C10_AllCallbacksThenPop ==
    wpc = "pop_remove" =>
        /\ \A k \in 1 .. Len(obs) : obs[k][2] = obs[1][2]
        /\ \A k \in 1 .. (Len(obs) - 1) : obs[k][1] < obs[k + 1][1]
        /\ ~draining => {obs[k][1] : k \in 1 .. Len(obs)} = {i \in Slots : tasks[i] # NoTask}

\* C11: the registry is not modified while the worker is iterating over it for a
\* value, in the loop and in the drain loop alike.
C11_RegistryStableWhileIterating == [][wpc = "iter" => tasks' = tasks]_vars

\* a pop() called by a user removes in this step
UserPopRemoves == cpc = "remove" /\ cpc' = "idle"

\* C12: a user's pop() on an empty storage leaves the storage as it was: still
\* empty, of size 0, nothing removed.
C12_EmptyPopLeavesStorage ==
    [][(UserPopRemoves /\ empty) => (UNCHANGED storage /\ size' = 0)]_vars

\* C13: in its loop, where it holds the mutex, the worker reads the head and pops
\* only from a non-empty storage: when it is about to take front(), and when it is
\* about to remove, the storage holds an element.
C13_WorkerFrontNonEmpty == (wpc \in {"front", "pop_remove"} /\ ~draining) => ~empty

\* C14: once constructed, the shutdown flag is true exactly when stop() (or the
\* destructor's stop()) has been called.
C14_FlagFollowsStop ==
    ctor_pc = "done" => (shutdown_required <=> (stops > 0 \/ destroyed))

\* C15: the worker blocks in its wait only when the storage is empty and shutdown
\* has not been requested.
C15_BlocksOnlyWhenIdle ==
    [][(wpc = "block" /\ wpc' = "waiting") => (empty /\ ~shutdown_required)]_vars

\* the registry has exactly its first n slots occupied
Prefix(n) == \A i \in Slots : (tasks[i] # NoTask) <=> (i < n)

\* C17: the occupied slots are the first nreg slots, nreg being the number of
\* registrations that succeeded; tasks_count() is that number; and no step empties
\* or overwrites an occupied slot.
C17_SlotsFilledLeftToRight ==
    /\ [](Prefix(nreg) /\ tasks_count = nreg)
    /\ [][\A i \in Slots : tasks[i] # NoTask => tasks'[i] = tasks[i]]_vars

\* C17's case: add_callback() has filled some slots after the constructor's, and
\* free slots remain
C17_PartlyFilled ==
    /\ last_add = "ok"
    /\ nreg = 3
    /\ tasks[2] # NoTask
    /\ tasks[3] = NoTask

\* C18: in its loop the worker holds the mutex when pop() takes it again, so that
\* acquisition cannot block; the nested lock is released before the removal; and
\* the worker holds nothing when the iteration is over.
C18_ReentrantLock ==
    /\ (wpc = "pop_lock" /\ ~draining) => (mutex.owner = "worker" /\ CanLock("worker"))
    /\ (wpc = "pop_unlock" /\ ~draining) => mutex = [owner |-> "worker", count |-> 2]
    /\ (wpc = "pop_remove" /\ ~draining) => mutex = [owner |-> "worker", count |-> 1]
    /\ wpc \in {"while", "lock", "waiting", "drain", "done"} => mutex.owner # "worker"

\* C18's case: inside proc_one, called from the loop, pop() holds the mutex a second time
C18_NestedHold ==
    /\ wpc = "pop_unlock"
    /\ ~draining
    /\ mutex = [owner |-> "worker", count |-> 2]

\* C19: the worker reads shutdown_required only after its initialiser has run, and
\* runs callbacks only once the constructor has registered the initial one.
C19_WorkerReadsAfterInit ==
    [][/\ (wpc = "while" /\ wpc' # "while") => ctor_pc # "flag"
       /\ (wpc = "front" /\ wpc' = "iter") => tasks[0] # NoTask]_vars

====
